---- MODULE Spec2Model ----
(***************************************************************************)
(* Model of the command batching and transaction engine of                 *)
(* src/src/ps/descriptor.js (class Descriptor): beginTransaction,          *)
(* batchPlay / _addToTransaction, endTransaction, _batchPlayImmediate and  *)
(* the settlement of the promisified native batchPlay call.                *)
(***************************************************************************)
EXTENDS Integers, Sequences, FiniteSets, TLC

\* ---------------------------------------------------------------- bounds
MaxTx == 2        \* beginTransaction is called at most MaxTx times
MaxCmds == 3      \* at most MaxCmds commands are ever queued or dispatched
MaxCalls == 2     \* at most MaxCalls native batchPlay invocations
MaxBatch == 2     \* longest command list of one batchPlay call

NoTx == -1        \* marks "no transaction" in the call log and in last

\* ---------------------------------------------------------------- values
\* A JavaScript option value: a string or boolean (atom), a number, or a plain
\* object whose own properties hold strings.  All shapes share one record type.
Atom(v) == [kind |-> "atom", atom |-> v, num |-> 0, fields |-> <<>>]
Num(n) == [kind |-> "num", atom |-> "", num |-> n, fields |-> <<>>]
Obj(f) == [kind |-> "obj", atom |-> "", num |-> 0, fields |-> f]

\* A plain object that the caller keeps a reference to after the call: the
\* value is the reference, the own properties are in heap[a].
Ref(a) == [kind |-> "ref", atom |-> "", num |-> a, fields |-> <<>>]

\* An options object given by a caller: its own keys in insertion order.
Pair(k, v) == <<[key |-> k, val |-> v]>>

KeysOf(source) == {source[i].key : i \in DOMAIN source}

ValueOf(source, k) == source[CHOOSE i \in DOMAIN source : source[i].key = k].val

\* The same object as a map from key to value.
ToObject(source) == [k \in KeysOf(source) |-> ValueOf(source, k)]

Put(object, k, v) == [x \in DOMAIN object \cup {k} |-> IF x = k THEN v ELSE object[x]]


\* Descriptor.interactionMode: DONT_DISPLAY, DISPLAY and SILENT
SILENT == Atom("SILENT")

DISPLAY == Atom("DISPLAY")

DONT_DISPLAY == Atom("DONT_DISPLAY")

HSI_H == Obj([name |-> "H"])
HSI_A == Obj([name |-> "A"])
HSI_B == Obj([name |-> "B", target |-> "T"])

\* One entry of a results array: an object with its own keys, null, or the
\* unset slot of "new Array(n)".  command is the command the entry answers.
ResultObject(command, keys) == [kind |-> "object", command |-> command, keys |-> keys]

ResultNull(command) == [kind |-> "null", command |-> command, keys |-> {}]

Unset == [kind |-> "unset", command |-> 0, keys |-> {}]

\* An error: the Error thrown by the adapter code (by name), the rejection of
\* the native call, or entry index of the errors array of a response.
ErrorOf(name, index) == [name |-> name, index |-> index]

NoError == ErrorOf("", 0)

\* What a promise settles with: an array, the pair [results, errors], an
\* error, or nothing yet.
ArrayOf(results) == [kind |-> "array", results |-> results, errors |-> <<>>, error |-> NoError]

PairOf(results, errors) == [kind |-> "pair", results |-> results, errors |-> errors, error |-> NoError]

Failure(error) == [kind |-> "error", results |-> <<>>, errors |-> <<>>, error |-> error]

NoValue == [kind |-> "none", results |-> <<>>, errors |-> <<>>, error |-> NoError]

NoResponse == [rejects |-> FALSE, errors |-> <<>>, results |-> <<>>]

\* A JavaScript value of a reference: a string, an array of values, or a
\* plain object (its own keys and their values); JUndefined is no value.
JStr(s) == [class |-> "string", str |-> s, items |-> <<>>, fields |-> <<>>]

JArr(items) == [class |-> "array", str |-> "", items |-> items, fields |-> <<>>]

JObj(fields) == [class |-> "object", str |-> "", items |-> <<>>, fields |-> fields]

JUndefined == [class |-> "undefined", str |-> "", items |-> <<>>, fields |-> <<>>]

\* The value of a property read from a result: result[property].  It is
\* named by the command the result answers and the property; NoPropertyValue
\* is an unset slot.
PropertyValue(result, property) == [command |-> result.command, property |-> property]

NoPropertyValue == [command |-> 0, property |-> ""]

\* What a promise of the property queries settles with: what batchPlay gave
\* (raw), a list of property values, an object of property values, the
\* fetched object (its own keys), or Error("No such property: " + missing).
QValue(kind, raw, list, object, keys, missing) ==
    [kind |-> kind, raw |-> raw, list |-> list, object |-> object,
     keys |-> keys, missing |-> missing]

QNone == QValue("none", NoValue, <<>>, <<>>, {}, "")

QRaw(value) == QValue("raw", value, <<>>, <<>>, {}, "")

QList(list) == QValue("list", NoValue, list, <<>>, {}, "")

QObject(object) == QValue("object", NoValue, <<>>, object, {}, "")

QFetched(keys) == QValue("fetched", NoValue, <<>>, <<>>, keys, "")

QMissing(property) == QValue("missing", NoValue, <<>>, <<>>, {}, property)

\* transaction ids a caller may pass: ids begin has returned, has not yet
\* returned, or whose transaction is over
TidInputs == 0 .. MaxTx - 1

\* the options of a batchPlay call on transaction t
OnTransaction(t, options) == Pair("transaction", Num(t)) \o options

\* Inputs of the specification Spec: every operation, on up to MaxTx
\* transactions, with few options.
TxInputs == { <<>> }

AddInputs == { <<>>, Pair("continueOnError", Atom("true")) }

ImmediateInputs == { <<>>, Pair("continueOnError", Atom("true")) }

CallInputs == ImmediateInputs \cup
    {OnTransaction(t, o) : t \in TidInputs, o \in AddInputs}

\* Inputs of the specification SpecOptions: the first transaction, with
\* options that agree, conflict, are declared at begin and are nested objects.
OptionTids == {0}

TxOptionInputs ==
    { <<>>,
      Pair("historyStateInfo", HSI_H) }

OptionInputs ==
    { <<>>,
      Pair("continueOnError", Atom("true")),
      Pair("continueOnError", Atom("false")),
      Pair("historyStateInfo", HSI_A),
      Pair("historyStateInfo", HSI_B),
      Pair("historyStateInfo", HSI_A) \o Pair("continueOnError", Atom("false")) }

OptionCallInputs == {OnTransaction(t, o) : t \in OptionTids, o \in OptionInputs}

\* Inputs of the specification SpecMode: immediate calls and the first
\* transaction, with and without an interactionMode of the caller.
ModeTxInputs ==
    { <<>>,
      Pair("interactionMode", DISPLAY) }

ModeInputs ==
    { <<>>,
      Pair("interactionMode", DISPLAY),
      Pair("interactionMode", DONT_DISPLAY) }

ModeCallInputs == ModeInputs \cup {OnTransaction(t, o) : t \in OptionTids, o \in ModeInputs}

\* Inputs of the specification SpecWrap: references of every shape _wrap
\* tells apart, and the optional list of multi-get properties.
MaxRefs == 2      \* longest array of references

RefStrings == {JStr("document"), JStr("layer")}

RefObjects ==
    { JObj("_ref" :> JStr("layer") @@ "_id" :> JStr("7")),
      JObj("_ref" :> JStr("document") @@ "_enum" :> JStr("ordinal")
           @@ "_value" :> JStr("targetEnum")) }

RefArrays ==
    {JArr(items) : items \in UNION {[1 .. n -> RefStrings \cup RefObjects] : n \in 0 .. MaxRefs}}

RefNested ==
    {JArr(<<a, b>>) : a \in {JArr(<<JStr("document"), JStr("layer")>>)},
                      b \in RefStrings \cup RefObjects}

\* play objects: the reference is the value of the key "null"
RefPlay ==
    {JObj("null" :> r @@ "to" :> JStr("x")) :
        r \in RefStrings \cup RefObjects \cup RefNested}

\* arrays that hold a play object
RefArraysOfPlay ==
    {JArr(<<p, r>>) : p \in {JObj("null" :> JStr("layer") @@ "to" :> JStr("x"))},
                      r \in RefStrings}

References ==
    RefStrings \cup RefObjects \cup RefArrays \cup RefNested \cup RefPlay
    \cup RefArraysOfPlay

\* the second argument of _wrap: <<>> when it is not given, else <<list>>
PropertyLists == { <<>>, << <<>> >>, << <<"a", "b">> >> }

\* Inputs of the specification SpecQuery: references, lists of at most
\* MaxProps property names, options, and what the executor answers.
MaxProps == 2     \* longest list of properties of one query
MaxQueries == 1   \* property queries made in one behaviour

QueryRefs == {JStr("layer"), JArr(<<JStr("document"), JStr("layer")>>)}

QueryProps == {"a", "b"}

PropertyInputs == UNION {[1 .. n -> QueryProps] : n \in 0 .. MaxProps}

\* refObjs of batchGetProperties: {reference, property} pairs
RefObjInputs ==
    {[i \in DOMAIN properties |-> [reference |-> r, property |-> properties[i]]] :
        r \in QueryRefs, properties \in PropertyInputs}

QueryOptionInputs ==
    { <<>>,
      Pair("continueOnError", Atom("true")),
      OnTransaction(0, <<>>) }

\* own keys an object fetched by the native get may have
FetchedKeys == {"a", "b", "c"}

\* ---------------------------------------------------------------- state
VARIABLES
    transactionIDCounter,  \* this._transactionIDCounter
    transactions,          \* this._transactions: id -> [txOptions, options, commands]
    calls,                 \* native batchPlay invocations, in order, with their state
    nextCmd,               \* the next command identity not yet queued or dispatched
    returned,              \* history: ids returned by beginTransaction, in order
    added,                 \* history: id -> commands of the adds that returned normally
    supplied,              \* history: id -> {<<key, value>>} given by adds that returned normally
    writers,               \* history: id -> key -> value of the first add that gave the key
                           \*          and returned normally
    heap,                  \* objects the callers keep a reference to: address -> own properties
    last,                  \* the last operation, its inputs and its outcome
    promise,               \* what the last operation returned: a promise, or a throw
    wrapped,               \* a reference, and what _wrap made of it once and twice
    query                  \* the last property query: its inputs, native call and promise

vars == <<transactionIDCounter, transactions, calls, nextCmd, returned,
          added, supplied, writers, heap, last, promise, wrapped, query>>

\* the state of the transaction engine
engine == <<transactionIDCounter, transactions, calls, nextCmd, returned,
            added, supplied, writers, heap, last, promise>>

\* the state outside the transaction engine
others == <<wrapped, query>>

\* op: the operation; tid: the transaction id it was given (NoTx: none);
\* cmds, opts: the commands and options it was given; res: its outcome
Result(op, tid, cmds, opts, res) ==
    [op |-> op, tid |-> tid, cmds |-> cmds, opts |-> opts, res |-> res]

\* state: "none", "thrown" (the call threw), "pending", "resolved" or
\* "rejected"; call: the native invocation that settled it (0: none) and
\* response: what the executor answered
Promise(state, value) ==
    [state |-> state, value |-> value, call |-> 0, response |-> NoResponse]

\* stage: how often _wrap has been applied to reference; after: the object
\* the caller passed, as the caller finds it once _wrap has returned
Wrapping(stage, reference, properties, once, twice) ==
    [stage |-> stage, reference |-> reference, properties |-> properties,
     once |-> once, twice |-> twice, after |-> reference]

\* nth: the number of queries made so far; op: the query; state: the state
\* of the promise the query returned: "none", "thrown" (the query threw),
\* "pending", "resolved" or "rejected"; inner: the promise the handlers of
\* the query wait on (of batchPlay, or of the native get); mid: the promise
\* of batchGetProperties, which for batchGetOptionalProperties stands between
\* the promise of batchPlay and the one returned; options: the options handed
\* to batchPlay; call: the native batchPlay invocation it waits for (0: none);
\* commands: the commands it built; get: the reference handed to the native
\* get; fetched: what that get answered
Query(nth, op, state, refObjs, options, call, commands, get, fetched, value) ==
    [nth |-> nth, op |-> op, state |-> state, refObjs |-> refObjs,
     options |-> options, call |-> call, commands |-> commands, get |-> get,
     fetched |-> fetched, value |-> value, inner |-> Promise("none", NoValue),
     mid |-> [state |-> "none", value |-> QNone]]

NoFetch == [rejects |-> FALSE, keys |-> {}]

NoQuery == Query(0, "none", "none", <<>>, <<>>, 0, <<>>, JUndefined, NoFetch, QNone)

\* the own properties of a plain object, in a given heap
FieldsIn(h, v) == IF v.kind = "ref" THEN h[v.num] ELSE v.fields

IsObject(v) == v.kind \in {"obj", "ref"}

\* a value as it reads in a given heap, every reference replaced by content
ReadIn(h, v) == IF v.kind = "ref" THEN Obj(h[v.num]) ELSE v

\* an options object as it reads now
Read(object) == [k \in DOMAIN object |-> ReadIn(heap, object[k])]

\* _.isEqual: deep equality of two values
IsEqual(a, b) == ReadIn(heap, a) = ReadIn(heap, b)

Init ==
    /\ transactionIDCounter = 0
    /\ transactions = <<>>
    /\ calls = <<>>
    /\ nextCmd = 1
    /\ returned = <<>>
    /\ added = <<>>
    /\ supplied = <<>>
    /\ writers = <<>>
    /\ heap = <<>>
    /\ last = Result("init", NoTx, <<>>, <<>>, "ok")
    /\ promise = Promise("none", NoValue)
    /\ wrapped = Wrapping(0, JUndefined, <<>>, JUndefined, JUndefined)
    /\ query = NoQuery

\* ---------------------------------------------------------------- _wrap
Reverse(seq) == [i \in DOMAIN seq |-> seq[Len(seq) + 1 - i]]

\* the arguments of Array.prototype.concat: an array gives its elements,
\* any other value gives itself
Spread(value) == IF value.class = "array" THEN value.items ELSE <<value>>

RECURSIVE _wrap(_, _)
\* A variant that keeps the order of the elements of an array.
_wrap_Unreversed(reference, multiGetProperties) ==
    IF reference.class = "array"
    THEN JObj("_ref" :> JArr([i \in DOMAIN reference.items |->
                                _wrap(reference.items[i], <<>>)]))
    ELSE IF reference.class = "string"
    THEN JObj("_ref" :> reference @@ "_enum" :> JStr("ordinal")
              @@ "_value" :> JStr("targetEnum"))
    ELSE reference

\* A variant that leaves a wrapped array bare instead of putting it under _ref.
_wrap_BareArray(reference, multiGetProperties) ==
    IF reference.class = "array"
    THEN JArr(Reverse([i \in DOMAIN reference.items |-> _wrap(reference.items[i], <<>>)]))
    ELSE IF reference.class = "string"
    THEN JObj("_ref" :> reference @@ "_enum" :> JStr("ordinal")
              @@ "_value" :> JStr("targetEnum"))
    ELSE reference

_wrap(reference, multiGetProperties) ==
    LET inner ==
            IF reference.class = "array"
            THEN JArr(Reverse([i \in DOMAIN reference.items |->
                                  _wrap(reference.items[i], <<>>)]))
            ELSE IF reference.class = "string"
            THEN JObj("_ref" :> reference @@ "_enum" :> JStr("ordinal")
                      @@ "_value" :> JStr("targetEnum"))
            ELSE IF "null" \in DOMAIN reference.fields
            THEN JObj([reference.fields EXCEPT !["null"] = _wrap(@, <<>>)])
            ELSE reference
    IN IF multiGetProperties # <<>>
       THEN LET names == multiGetProperties[1]
                propertyList == JArr([i \in DOMAIN names |-> JStr(names[i])])
            IN JObj("_multiGetRef" :>
                      JArr(<<JObj("_propertyList" :> propertyList)>> \o Spread(inner)))
       ELSE IF inner.class = "array"
       THEN JObj("_ref" :> inner)
       ELSE inner

\* What _wrap leaves in the object it was given: an array is deep-cloned
\* before it is mapped and a string is a value, while reference["null"] of
\* a play object is assigned in place.
CallerSees(reference) ==
    IF reference.class = "object" /\ "null" \in DOMAIN reference.fields
    THEN JObj([reference.fields EXCEPT !["null"] = _wrap(@, <<>>)])
    ELSE reference

\* const wrappedReference = _wrap(reference): the first application
WrapOnce ==
    /\ wrapped.stage = 0
    /\ wrapped' = [wrapped EXCEPT !.stage = 1,
                                  !.once = _wrap(wrapped.reference, wrapped.properties),
                                  !.after = CallerSees(wrapped.reference)]
    /\ UNCHANGED <<engine, query>>

\* _wrap applied to a reference that _wrap returned
WrapAgain ==
    /\ wrapped.stage = 1
    /\ wrapped' = [wrapped EXCEPT !.stage = 2, !.twice = _wrap(wrapped.once, <<>>)]
    /\ UNCHANGED <<engine, query>>

\* ---------------------------------------------------------------- beginTransaction
\* A variant that takes the number of active transactions as the next id.
NextTransactionID_MapSize(counter, map) == Cardinality(DOMAIN map)

\* var transactionID = this._transactionIDCounter++
NextTransactionID(counter, map) == counter

BeginTransaction(options) ==
    /\ transactionIDCounter < MaxTx
    /\ LET transactionID == NextTransactionID(transactionIDCounter, transactions)
           transactionInfo == [txOptions |-> ToObject(options),
                               options |-> <<>>,
                               commands |-> <<>>]
       IN /\ transactionIDCounter' = transactionIDCounter + 1
          /\ transactions' = Put(transactions, transactionID, transactionInfo)
          /\ returned' = Append(returned, transactionID)
          /\ added' = Put(added, transactionID, <<>>)
          /\ supplied' = Put(supplied, transactionID, {})
          /\ writers' = Put(writers, transactionID, <<>>)
          /\ last' = Result("begin", transactionID, <<>>, options, "ok")
          /\ promise' = Promise("none", NoValue)
    /\ UNCHANGED <<calls, nextCmd, heap>>

\* ---------------------------------------------------------------- _batchPlayImmediate
\* A variant that sets SILENT whatever the options hold.
WithInteractionMode_Always(options) == Put(options, "interactionMode", SILENT)

\* if (!options.hasOwnProperty("interactionMode")) options.interactionMode = SILENT
WithInteractionMode(options) ==
    IF "interactionMode" \in DOMAIN options
    THEN options
    ELSE Put(options, "interactionMode", SILENT)

\* this._batchPlayAsync(commands, options): one native invocation, not yet
\* settled.  options is what the executor is handed at the call, as it reads
\* in the heap h of that moment; live is the content of that same options
\* object as the .then handler will read it.  status is the state of the
\* promise of _batchPlayImmediate, which its .then handler settles; settled
\* is the state of the promise the caller holds: the same promise for a
\* batchPlay, the promise behind the .tap handler for an endTransaction;
\* value is what the .then handler settled with, kept until the caller's
\* promise settles.
NativeCall(tid, commands, options, h) ==
    [tid |-> tid, commands |-> commands,
     options |-> [k \in DOMAIN options |-> ReadIn(h, options[k])],
     live |-> options, status |-> "pending", settled |-> "pending",
     value |-> NoValue]

\* ---------------------------------------------------------------- _addToTransaction
\* A variant of the lookup that makes up an empty record for an unknown id.
Get_Create(map, tid) ==
    IF tid \in DOMAIN map THEN <<map[tid]>>
    ELSE <<[txOptions |-> <<>>, options |-> <<>>, commands |-> <<>>]>>

\* this._transactions.get(tid): the record of tid, or nothing (undefined)
Get(map, tid) == IF tid \in DOMAIN map THEN <<map[tid]>> ELSE <<>>

\* A variant that returns an empty array whatever the commands.
Placeholders_Empty(n) == <<>>

\* new Array(commands.length): an array of that length with every slot unset
Placeholders(n) == [i \in 1 .. n |-> Unset]

\* A variant of the customizer that keeps a on every disagreement.
Customizer_NeverThrows(object, b, key, txOptions) ==
    IF key \notin DOMAIN object THEN "b" ELSE "a"

\* A variant of the customizer that does not look at txOptions.
Customizer_IgnoresTxOptions(object, b, key, txOptions) ==
    IF key \notin DOMAIN object THEN "b"
    ELSE IF ~IsEqual(object[key], b) THEN "throw"
    ELSE "a"

\* The customizer given to _.merge, called with (a, b, key) for each own key
\* of the incoming options; a is absent when the key is not yet accumulated.
Customizer(object, b, key, txOptions) ==
    IF key \notin DOMAIN object THEN "b"
    ELSE IF key \notin DOMAIN txOptions /\ ~IsEqual(object[key], b) THEN "throw"
    ELSE "a"

\* _.merge(transactionInfo.options, options, customizer): walks the keys of
\* the source in order and assigns into the destination object in place; a
\* throw of the customizer leaves the keys assigned so far.
RECURSIVE MergeWith(_, _, _)
MergeWith(object, source, txOptions) ==
    IF source = <<>> THEN [threw |-> FALSE, object |-> object]
    ELSE LET key == Head(source).key
             b == Head(source).val
             c == Customizer(object, b, key, txOptions)
         IN IF c = "throw" THEN [threw |-> TRUE, object |-> object]
            ELSE IF c = "b" THEN MergeWith(Put(object, key, b), Tail(source), txOptions)
            ELSE MergeWith(object, Tail(source), txOptions)

\* A variant that puts the new commands in front.
Concat_Prepend(old, commands) == commands \o old

\* transactionInfo.commands.concat(commands)
Concat(old, commands) == old \o commands

\* A variant that never sees the transaction key.
HasTransaction_Never(options) == FALSE

\* options.hasOwnProperty("transaction")
HasTransaction(options) == "transaction" \in KeysOf(options)

\* ---------------------------------------------------------------- batchPlay
\* A variant of the empty outcome that is the empty array in both modes.
EmptyOutcome_Array(options) == ArrayOf(<<>>)

\* options.continueOnError ? [[], []] : []
EmptyOutcome(options) ==
    IF "continueOnError" \in KeysOf(options)
       /\ ValueOf(options, "continueOnError") = Atom("true")
    THEN PairOf(<<>>, <<>>)
    ELSE ArrayOf(<<>>)

\* batchPlay(commands, options) with commands = n commands that no earlier
\* call has queued or dispatched.
BatchPlay(n, options) ==
    LET commands == [i \in 1 .. n |-> nextCmd + i - 1]
        tid == IF "transaction" \in KeysOf(options)
               THEN ValueOf(options, "transaction").num ELSE NoTx
        res(r) == Result("batchPlay", tid, commands, options, r)
    IN
    /\ nextCmd + n - 1 <= MaxCmds
    /\ IF n = 0 THEN
            \* commands.length === 0: resolve with the empty outcome
            /\ last' = res("empty")
            /\ promise' = Promise("resolved", EmptyOutcome(options))
            /\ UNCHANGED <<transactionIDCounter, transactions, calls, nextCmd, returned,
                           added, supplied, writers, heap>>
       ELSE IF HasTransaction(options) THEN
            \* _addToTransaction(options.transaction, commands, options)
            IF Get(transactions, tid) = <<>> THEN
                /\ last' = res("InvalidTransaction")
                /\ promise' = Promise("thrown", Failure(ErrorOf("InvalidTransaction", 0)))
                /\ UNCHANGED <<transactionIDCounter, transactions, calls, nextCmd, returned,
                               added, supplied, writers, heap>>
            ELSE
                LET transactionInfo == Get(transactions, tid)[1]
                    m == MergeWith(transactionInfo.options, options,
                                   transactionInfo.txOptions)
                IN IF m.threw THEN
                        /\ transactions' = [transactions EXCEPT ![tid].options = m.object]
                        /\ last' = res("IncompatibleOptions")
                        /\ promise' = Promise("thrown",
                                              Failure(ErrorOf("IncompatibleOptions", 0)))
                        /\ UNCHANGED <<transactionIDCounter, calls, nextCmd, returned,
                                       added, supplied, writers, heap>>
                   ELSE
                        /\ transactions' =
                             [transactions EXCEPT
                                ![tid].options = m.object,
                                ![tid].commands = Concat(transactionInfo.commands, commands)]
                        /\ added' = [added EXCEPT ![tid] = @ \o commands]
                        /\ supplied' = [supplied EXCEPT ![tid] =
                                          @ \cup {<<options[i].key,
                                                     ReadIn(heap, options[i].val)>> :
                                                    i \in DOMAIN options}]
                        /\ writers' = [writers EXCEPT ![tid] =
                                         [k \in DOMAIN @ \cup KeysOf(options) |->
                                            IF k \in DOMAIN @ THEN @[k]
                                            ELSE ReadIn(heap, ValueOf(options, k))]]
                        /\ nextCmd' = nextCmd + n
                        /\ last' = res("ok")
                        /\ promise' = Promise("resolved", ArrayOf(Placeholders(n)))
                        /\ UNCHANGED <<transactionIDCounter, calls, returned, heap>>
       ELSE
            \* _batchPlayImmediate(commands, options)
            /\ Len(calls) < MaxCalls
            /\ calls' = Append(calls, NativeCall(NoTx, commands,
                                                 WithInteractionMode(ToObject(options)),
                                                 heap))
            /\ nextCmd' = nextCmd + n
            /\ last' = res("dispatched")
            /\ promise' = Promise("pending", NoValue)
            /\ UNCHANGED <<transactionIDCounter, transactions, returned,
                           added, supplied, writers, heap>>

\* ---------------------------------------------------------------- endTransaction
\* the own properties of two plain objects merged, those of b on top
MergeFields(fa, fb) ==
    [f \in DOMAIN fa \cup DOMAIN fb |-> IF f \in DOMAIN fb THEN fb[f] ELSE fa[f]]

\* _.merge(object, source) without customizer: own keys of the source are
\* assigned into the destination; two plain objects are merged recursively,
\* into the destination's object itself, and a plain object of the source
\* that meets no object is copied.
MergeValue(a, b) ==
    IF IsObject(a) /\ IsObject(b)
    THEN IF a.kind = "ref" THEN a
         ELSE Obj(MergeFields(a.fields, FieldsIn(heap, b)))
    ELSE IF IsObject(b) THEN Obj(FieldsIn(heap, b))
    ELSE b

Merge(object, source) ==
    [k \in DOMAIN object \cup DOMAIN source |->
        IF k \notin DOMAIN source THEN object[k]
        ELSE IF k \notin DOMAIN object
        THEN IF IsObject(source[k]) THEN Obj(FieldsIn(heap, source[k])) ELSE source[k]
        ELSE MergeValue(object[k], source[k])]

\* The heap after that merge: an object of the destination that the caller
\* still holds has received the properties of the source's object.
MergeHeap(object, source) ==
    [a \in DOMAIN heap |->
        IF \E k \in DOMAIN object \cap DOMAIN source :
              object[k] = Ref(a) /\ IsObject(source[k])
        THEN LET k == CHOOSE k \in DOMAIN object \cap DOMAIN source :
                         object[k] = Ref(a) /\ IsObject(source[k])
             IN MergeFields(heap[a], FieldsIn(heap, source[k]))
        ELSE heap[a]]

EndTransaction(tid) ==
    IF Get(transactions, tid) = <<>> THEN
        /\ last' = Result("end", tid, <<>>, <<>>, "InvalidTransaction")
        /\ promise' = Promise("thrown", Failure(ErrorOf("InvalidTransaction", 0)))
        /\ UNCHANGED <<transactionIDCounter, transactions, calls, nextCmd, returned,
                       added, supplied, writers, heap>>
    ELSE
        LET transactionInfo == Get(transactions, tid)[1]
            finalOptions == WithInteractionMode(
                                Merge(transactionInfo.options, transactionInfo.txOptions))
        IN /\ Len(calls) < MaxCalls
           \* finalOptions is transactionInfo.options itself, changed in place
           /\ transactions' = [transactions EXCEPT ![tid].options = finalOptions]
           /\ heap' = MergeHeap(transactionInfo.options, transactionInfo.txOptions)
           /\ calls' = Append(calls, NativeCall(tid, transactionInfo.commands, finalOptions,
                                                heap'))
           /\ last' = Result("end", tid, <<>>, <<>>, "dispatched")
           /\ promise' = Promise("pending", NoValue)
           /\ UNCHANGED <<transactionIDCounter, nextCmd, returned, added, supplied, writers>>

\* ---------------------------------------------------------------- settlement
\* What the native executor does with a call: it fails outright ("reject")
\* or answers with position-aligned results and errors arrays, FALSE standing
\* for a null error.
Responses(call) ==
    {[rejects |-> TRUE, errors |-> <<>>, results |-> <<>>]} \cup
    {[rejects |-> FALSE, errors |-> e,
      results |-> [i \in DOMAIN call.commands |-> ResultObject(call.commands[i], {})]] :
        e \in [1 .. Len(call.commands) -> BOOLEAN]}

\* options.continueOnError is truthy
ContinueOnError(options) ==
    /\ "continueOnError" \in DOMAIN options
    /\ options["continueOnError"] = Atom("true")

\* The .then handler of _batchPlayImmediate: the state the returned promise
\* settles in.
Outcome(options, response) ==
    IF response.rejects THEN "rejected"
    ELSE IF ContinueOnError(options) THEN "resolved"
    ELSE IF \E i \in DOMAIN response.errors : response.errors[i] THEN "rejected"
    ELSE "resolved"

\* A variant of the scan that keeps the last error it meets.
TheError_Last(errors) ==
    IF \E i \in DOMAIN errors : errors[i]
    THEN CHOOSE i \in DOMAIN errors : errors[i] /\ \A j \in DOMAIN errors : errors[j] => j <= i
    ELSE 0

\* response[1].some(...): the index of the first entry that is an error, 0
\* when there is none
TheError(errors) ==
    IF \E i \in DOMAIN errors : errors[i]
    THEN CHOOSE i \in DOMAIN errors : errors[i] /\ \A j \in DOMAIN errors : errors[j] => i <= j
    ELSE 0

\* A variant of the handler that hands back the results alone in both modes.
Returned_ResultsAlone(options, response) ==
    IF response.rejects THEN Failure(ErrorOf("NativeError", 0))
    ELSE IF ~ContinueOnError(options) /\ TheError(response.errors) # 0
    THEN Failure(ErrorOf("CommandError", TheError(response.errors)))
    ELSE ArrayOf(response.results)

\* The .then handler of _batchPlayImmediate: the value the returned promise
\* settles with.
Returned(options, response) ==
    IF response.rejects THEN Failure(ErrorOf("NativeError", 0))
    ELSE IF ContinueOnError(options) THEN PairOf(response.results, response.errors)
    ELSE IF TheError(response.errors) # 0
    THEN Failure(ErrorOf("CommandError", TheError(response.errors)))
    ELSE ArrayOf(response.results)

\* .tap(function () { this._transactions.delete(tid); }) of endTransaction:
\* bluebird runs a tap handler only when the promise is fulfilled.
TapRuns(outcome) == outcome = "resolved"

Remove(map, tid) == [t \in DOMAIN map \ {tid} |-> map[t]]

\* The options object the .then handler of call i reads: for a call made by
\* endTransaction it is the record's options object itself, which adds made
\* while the call is in flight still change.
LiveOptions(i) ==
    IF calls[i].tid \in DOMAIN transactions
    THEN transactions[calls[i].tid].options
    ELSE calls[i].live

\* The executor answers call i and the .then handler of _batchPlayImmediate
\* runs on the answer: it reads options.continueOnError as it is then and
\* settles the promise of _batchPlayImmediate.  For a batchPlay that is the
\* promise the caller holds; for an endTransaction the caller's promise
\* stands behind the .tap handler, which the promise library runs from its
\* queue in a step of its own (Tap).
Settle(i, response) ==
    /\ calls[i].status = "pending"
    /\ LET tid == calls[i].tid
           outcome == Outcome(LiveOptions(i), response)
           value == Returned(LiveOptions(i), response)
       IN /\ calls' = [calls EXCEPT
                         ![i].status = outcome,
                         ![i].settled = IF tid = NoTx THEN outcome ELSE "pending",
                         ![i].value = IF tid = NoTx THEN NoValue ELSE value]
          /\ last' = Result("settle", tid, <<>>, <<>>, outcome)
          /\ promise' = [state |-> outcome,
                         value |-> value,
                         call |-> i,
                         response |-> response]
    /\ UNCHANGED <<transactionIDCounter, transactions, nextCmd, returned, added, supplied,
                   writers, heap>>

\* The promise library reaches the .tap handler endTransaction put on the
\* promise of _batchPlayImmediate for call i: when that promise is fulfilled
\* the handler deletes the record of the transaction, and the promise the
\* caller of endTransaction holds settles as the promise of
\* _batchPlayImmediate did.  Whatever the caller runs between the .then
\* handler and this step finds the record in the map.
Tap(i) ==
    /\ calls[i].tid # NoTx
    /\ calls[i].status # "pending"
    /\ calls[i].settled = "pending"
    /\ LET tid == calls[i].tid
           outcome == calls[i].status
           removes == tid \in DOMAIN transactions /\ TapRuns(outcome)
       IN /\ calls' = [j \in DOMAIN calls |->
                         [calls[j] EXCEPT
                            !.settled = IF j = i THEN outcome ELSE @,
                            !.value = IF j = i THEN NoValue ELSE @,
                            !.live = IF removes /\ calls[j].tid = tid
                                     THEN transactions[tid].options ELSE @]]
          /\ transactions' = IF removes THEN Remove(transactions, tid) ELSE transactions
          /\ last' = Result("tap", tid, <<>>, <<>>, outcome)
          /\ promise' = [state |-> outcome,
                         value |-> calls[i].value,
                         call |-> i,
                         response |-> NoResponse]
    /\ UNCHANGED <<transactionIDCounter, nextCmd, returned, added, supplied, writers, heap>>

\* ---------------------------------------------------------------- batchGetProperties
\* _makePropertyReference(reference, property)
MakePropertyReference(reference, property) ==
    LET propertyDescriptor == JObj("_ref" :> JStr("property")
                                   @@ "_property" :> JStr(property))
    IN IF reference.class = "array"
       THEN JArr(reference.items \o <<propertyDescriptor>>)
       ELSE JArr(<<reference, propertyDescriptor>>)

\* batchGet: one command { name: "get", descriptor: { "null": _wrap(reference) } }
GetCommand(reference) ==
    JObj("name" :> JStr("get")
         @@ "descriptor" :> JObj("null" :> _wrap(reference, <<>>)))

\* result && result.hasOwnProperty(property)
HasOwn(result, property) == result.kind = "object" /\ property \in result.keys

\* response.map(...): the index of the first result the callback throws on,
\* 0 when it throws on none; map does not call it for an unset slot
Offender(refObjs, results) ==
    LET bad == {i \in DOMAIN results :
                  results[i].kind # "unset" /\ ~HasOwn(results[i], refObjs[i].property)}
    IN IF bad = {} THEN 0 ELSE CHOOSE i \in bad : \A j \in bad : i <= j

\* options.continueOnError is truthy, for options as the caller wrote them
Continues(options) ==
    \E i \in DOMAIN options :
        options[i].key = "continueOnError" /\ options[i].val = Atom("true")

\* The .then handler of batchGetProperties on what batchPlay resolved with.
BatchGetPropertiesThen(refObjs, options, value) ==
    IF Continues(options) THEN [state |-> "resolved", value |-> QRaw(value)]
    ELSE LET results == value.results
             i == Offender(refObjs, results)
         IN IF i # 0
            THEN [state |-> "rejected", value |-> QMissing(refObjs[i].property)]
            ELSE [state |-> "resolved",
                  value |-> QList([k \in DOMAIN results |->
                                     IF results[k].kind = "unset" THEN NoPropertyValue
                                     ELSE PropertyValue(results[k], refObjs[k].property)])]

\* A variant of the fold that sets every requested property.
Fold_EveryProperty(properties, values) ==
    [p \in {properties[i] : i \in DOMAIN values} |->
        PropertyValue(values[CHOOSE i \in DOMAIN values : properties[i] = p], p)]

\* values.reduce(...): the object of the properties their results hold; a
\* later result of the same property overwrites an earlier one
Fold(properties, values) ==
    LET present == {i \in DOMAIN values : HasOwn(values[i], properties[i])}
    IN [p \in {properties[i] : i \in present} |->
          PropertyValue(values[CHOOSE i \in present :
                                  /\ properties[i] = p
                                  /\ \A j \in present : properties[j] = p => j <= i], p)]

\* The .then handler of batchGetOptionalProperties on what batchGetProperties
\* settled with.
BatchGetOptionalPropertiesThen(refObjs, inner) ==
    IF inner.state = "resolved"
    THEN [state |-> "resolved",
          value |-> QObject(Fold([i \in DOMAIN refObjs |-> refObjs[i].property],
                                 inner.value.raw.results))]
    ELSE inner

\* The promise of batchGetProperties on the promise batchPlay returned: its
\* .then handler runs when that promise is fulfilled, a rejection passes the
\* handler by.
QueryThen(refObjs, options, batch) ==
    IF batch.state = "resolved"
    THEN BatchGetPropertiesThen(refObjs, options, batch.value)
    ELSE [state |-> batch.state, value |-> QRaw(batch.value)]

\* this.batchGet(propertyReferences, options).then(...): the call of
\* batchPlay, and the handlers put on the promise it returned.  The query
\* throws when batchPlay throws; otherwise the promise it returns is pending
\* when the call returns, also when the promise of batchPlay is resolved
\* already: the handlers run from the queue of the promise library, each in
\* a step of its own (BatchGetPropertiesHandler,
\* BatchGetOptionalPropertiesHandler).
BatchGet(op, refObjs, options) ==
    /\ query.nth < MaxQueries
    /\ BatchPlay(Len(refObjs), options)
    /\ LET commands == [i \in DOMAIN refObjs |->
                          GetCommand(MakePropertyReference(refObjs[i].reference,
                                                           refObjs[i].property))]
           thrown == promise'.state = "thrown"
       IN query' = [Query(query.nth + 1, op, IF thrown THEN "thrown" ELSE "pending",
                          refObjs, options,
                          IF promise'.state = "pending" THEN Len(calls') ELSE 0,
                          commands, JUndefined, NoFetch,
                          IF thrown THEN QRaw(promise'.value) ELSE QNone)
                    EXCEPT !.inner = promise',
                           !.mid = [state |-> IF thrown THEN "none" ELSE "pending",
                                    value |-> QNone]]
    /\ UNCHANGED wrapped

BatchGetProperties(refObjs, options) == BatchGet("batchGetProperties", refObjs, options)

\* refObjs = properties.map(makeRefObj), options = { continueOnError: true }
BatchGetOptionalProperties(reference, properties) ==
    BatchGet("batchGetOptionalProperties",
             [i \in DOMAIN properties |-> [reference |-> reference, property |-> properties[i]]],
             Pair("continueOnError", Atom("true")))

\* The settlement of a native batchPlay call: the promise of batchPlay that
\* a query waits on settles with it; the promise of the query itself stays
\* pending until the promise library runs the query's handlers.
SettleQuery(i, response) ==
    /\ Settle(i, response)
    /\ query' = IF query.state = "pending" /\ query.call = i
                THEN [query EXCEPT !.inner = promise']
                ELSE query
    /\ UNCHANGED wrapped

\* The promise library runs the .then handler of batchGetProperties, the
\* promise of batchPlay having settled: the promise of batchGetProperties
\* settles.  It is the promise the caller of batchGetProperties holds;
\* batchGetOptionalProperties has put a handler of its own on it, which runs
\* in a later step.
BatchGetPropertiesHandler ==
    /\ query.op \in {"batchGetProperties", "batchGetOptionalProperties"}
    /\ query.mid.state = "pending"
    /\ query.inner.state \in {"resolved", "rejected"}
    /\ LET then == QueryThen(query.refObjs, query.options, query.inner)
           direct == query.op = "batchGetProperties"
       IN query' = [query EXCEPT !.mid = then,
                                 !.state = IF direct THEN then.state ELSE @,
                                 !.value = IF direct THEN then.value ELSE @]
    /\ UNCHANGED <<engine, wrapped>>

\* The promise library runs the .then handler of batchGetOptionalProperties,
\* the promise of batchGetProperties having settled: the promise the caller
\* holds settles.
BatchGetOptionalPropertiesHandler ==
    /\ query.op = "batchGetOptionalProperties"
    /\ query.state = "pending"
    /\ query.mid.state \in {"resolved", "rejected"}
    /\ LET then == BatchGetOptionalPropertiesThen(query.refObjs, query.mid)
       IN query' = [query EXCEPT !.state = then.state, !.value = then.value]
    /\ UNCHANGED <<engine, wrapped>>

\* What the native executor answers to one get command: an object holding
\* some of the properties, or null, with or without an error.
Answers ==
    {[error |-> FALSE, null |-> FALSE, keys |-> keys] : keys \in SUBSET QueryProps}
    \cup {[error |-> e, null |-> TRUE, keys |-> {}] : e \in BOOLEAN}
    \cup {[error |-> TRUE, null |-> FALSE, keys |-> QueryProps]}

\* What it answers to a call: nothing at all, or position-aligned results
\* and errors arrays.
QueryResponses(call) ==
    {[rejects |-> TRUE, errors |-> <<>>, results |-> <<>>]} \cup
    {[rejects |-> FALSE,
      errors |-> [i \in DOMAIN call.commands |-> a[i].error],
      results |-> [i \in DOMAIN call.commands |->
                     IF a[i].null THEN ResultNull(call.commands[i])
                     ELSE ResultObject(call.commands[i], a[i].keys)]] :
        a \in [DOMAIN call.commands -> Answers]}

\* ---------------------------------------------------------------- multiGetProperties
\* A variant of the scan that names the last property the object lacks.
FirstMissing_Last(properties, keys) ==
    LET absent == {i \in DOMAIN properties : properties[i] \notin keys}
    IN IF absent = {} THEN 0 ELSE CHOOSE i \in absent : \A j \in absent : j <= i

\* properties.forEach(...): the index of the first property the callback
\* throws on, 0 when it throws on none
FirstMissing(properties, keys) ==
    LET absent == {i \in DOMAIN properties : properties[i] \notin keys}
    IN IF absent = {} THEN 0 ELSE CHOOSE i \in absent : \A j \in absent : i <= j

\* multiGetProperties(reference, properties): multiGetOptionalProperties
\* returns a promise resolved with {} for no properties and calls the native
\* get otherwise; the promise multiGetProperties returns stands behind its
\* .tap handler and is pending when the call returns, in both cases.
MultiGetProperties(reference, properties) ==
    /\ query.nth < MaxQueries
    /\ LET refObjs == [i \in DOMAIN properties |->
                          [reference |-> reference, property |-> properties[i]]]
       IN query' = IF properties = <<>>
                   THEN [Query(query.nth + 1, "multiGetProperties", "pending", refObjs,
                               <<>>, 0, <<>>,
                               JUndefined, NoFetch, QNone)
                         EXCEPT !.inner = Promise("resolved", NoValue)]
                   ELSE [Query(query.nth + 1, "multiGetProperties", "pending", refObjs,
                               <<>>, 0, <<>>,
                               _wrap(reference, <<properties>>), NoFetch, QNone)
                         EXCEPT !.inner = Promise("pending", NoValue)]
    /\ UNCHANGED <<engine, wrapped>>

GetResponses ==
    {[rejects |-> TRUE, keys |-> {}]} \cup
    {[rejects |-> FALSE, keys |-> keys] : keys \in SUBSET FetchedKeys}

\* The settlement of the native get: the promise of
\* multiGetOptionalProperties settles; the promise multiGetProperties
\* returned stays pending until the promise library reaches its .tap handler.
SettleGet(response) ==
    /\ query.op = "multiGetProperties"
    /\ query.state = "pending"
    /\ query.inner.state = "pending"
    /\ query' = [query EXCEPT
                   !.fetched = response,
                   !.inner = Promise(IF response.rejects THEN "rejected" ELSE "resolved",
                                     NoValue)]
    /\ UNCHANGED <<engine, wrapped>>

\* The promise library reaches the .tap handler of multiGetProperties: on a
\* fulfilled promise the handler looks for each property in the object and
\* the promise multiGetProperties returned resolves with the object or is
\* rejected with what the handler threw; a rejection passes through.
TapGet ==
    /\ query.op = "multiGetProperties"
    /\ query.state = "pending"
    /\ query.inner.state \in {"resolved", "rejected"}
    /\ LET properties == [i \in DOMAIN query.refObjs |-> query.refObjs[i].property]
           response == query.fetched
           i == FirstMissing(properties, response.keys)
       IN query' = [query EXCEPT
                      !.state = IF response.rejects \/ i # 0 THEN "rejected" ELSE "resolved",
                      !.value = IF response.rejects
                                THEN QRaw(Failure(ErrorOf("NativeError", 0)))
                                ELSE IF i # 0 THEN QMissing(properties[i])
                                ELSE QFetched(response.keys)]
    /\ UNCHANGED <<engine, wrapped>>

\* ---------------------------------------------------------------- specifications
Next ==
    \/ /\ \E o \in TxInputs : BeginTransaction(o)
       /\ UNCHANGED others
    \/ /\ \E n \in 0 .. MaxBatch, o \in CallInputs : BatchPlay(n, o)
       /\ UNCHANGED others
    \/ /\ \E t \in TidInputs : EndTransaction(t)
       /\ UNCHANGED others
    \/ /\ \E i \in DOMAIN calls : \E r \in Responses(calls[i]) : Settle(i, r)
       /\ UNCHANGED others
    \/ /\ \E i \in DOMAIN calls : Tap(i)
       /\ UNCHANGED others

Spec == Init /\ [][Next]_vars

NextOptions ==
    \/ /\ \E o \in TxOptionInputs :
               transactionIDCounter \in OptionTids /\ BeginTransaction(o)
       /\ UNCHANGED others
    \/ /\ \E n \in 0 .. MaxBatch, o \in OptionCallInputs : BatchPlay(n, o)
       /\ UNCHANGED others
    \/ /\ \E t \in TidInputs : EndTransaction(t)
       /\ UNCHANGED others
    \/ /\ \E i \in DOMAIN calls : \E r \in Responses(calls[i]) : Settle(i, r)
       /\ UNCHANGED others
    \/ /\ \E i \in DOMAIN calls : Tap(i)
       /\ UNCHANGED others

SpecOptions == Init /\ [][NextOptions]_vars

NextMode ==
    \/ /\ \E o \in ModeTxInputs :
               transactionIDCounter \in OptionTids /\ BeginTransaction(o)
       /\ UNCHANGED others
    \/ /\ \E n \in 0 .. MaxBatch, o \in ModeCallInputs : BatchPlay(n, o)
       /\ UNCHANGED others
    \/ /\ \E t \in TidInputs : EndTransaction(t)
       /\ UNCHANGED others
    \/ /\ \E i \in DOMAIN calls : \E r \in Responses(calls[i]) : Settle(i, r)
       /\ UNCHANGED others
    \/ /\ \E i \in DOMAIN calls : Tap(i)
       /\ UNCHANGED others

SpecMode == Init /\ [][NextMode]_vars

InitWrap ==
    /\ transactionIDCounter = 0
    /\ transactions = <<>>
    /\ calls = <<>>
    /\ nextCmd = 1
    /\ returned = <<>>
    /\ added = <<>>
    /\ supplied = <<>>
    /\ writers = <<>>
    /\ heap = <<>>
    /\ last = Result("init", NoTx, <<>>, <<>>, "ok")
    /\ promise = Promise("none", NoValue)
    /\ \E r \in References, p \in PropertyLists :
          wrapped = Wrapping(0, r, p, JUndefined, JUndefined)
    /\ query = NoQuery

NextWrap ==
    \/ WrapOnce
    \/ WrapAgain

SpecWrap == InitWrap /\ [][NextWrap]_vars

NextQuery ==
    \/ /\ \E o \in TxInputs :
               transactionIDCounter \in OptionTids /\ BeginTransaction(o)
       /\ UNCHANGED others
    \/ /\ \E t \in OptionTids : EndTransaction(t)
       /\ UNCHANGED others
    \/ \E refObjs \in RefObjInputs, o \in QueryOptionInputs : BatchGetProperties(refObjs, o)
    \/ \E r \in QueryRefs, properties \in PropertyInputs :
            BatchGetOptionalProperties(r, properties)
    \/ \E i \in DOMAIN calls : \E r \in QueryResponses(calls[i]) : SettleQuery(i, r)
    \/ /\ \E i \in DOMAIN calls : Tap(i)
       /\ UNCHANGED others
    \/ BatchGetPropertiesHandler
    \/ BatchGetOptionalPropertiesHandler

SpecQuery == Init /\ [][NextQuery]_vars

NextMultiGet ==
    \/ \E r \in QueryRefs, properties \in PropertyInputs : MultiGetProperties(r, properties)
    \/ \E r \in GetResponses : SettleGet(r)
    \/ TapGet

SpecMultiGet == Init /\ [][NextMultiGet]_vars

\* Inputs of the specification SpecAlias: two transactions whose adds are
\* handed the same historyStateInfo object, which the caller keeps at
\* address SharedObject of the heap.
SharedObject == 1

AliasTxInputs ==
    { <<>>,
      Pair("historyStateInfo", HSI_H) }

AliasInputs ==
    { <<>>,
      Pair("historyStateInfo", Ref(SharedObject)) }

AliasCallInputs == {OnTransaction(t, o) : t \in TidInputs, o \in AliasInputs}

InitAlias ==
    /\ transactionIDCounter = 0
    /\ transactions = <<>>
    /\ calls = <<>>
    /\ nextCmd = 1
    /\ returned = <<>>
    /\ added = <<>>
    /\ supplied = <<>>
    /\ writers = <<>>
    /\ heap = (SharedObject :> [name |-> "A"])
    /\ last = Result("init", NoTx, <<>>, <<>>, "ok")
    /\ promise = Promise("none", NoValue)
    /\ wrapped = Wrapping(0, JUndefined, <<>>, JUndefined, JUndefined)
    /\ query = NoQuery

NextAlias ==
    \/ /\ \E o \in AliasTxInputs : BeginTransaction(o)
       /\ UNCHANGED others
    \/ /\ \E n \in 0 .. MaxBatch, o \in AliasCallInputs : BatchPlay(n, o)
       /\ UNCHANGED others
    \/ /\ \E t \in TidInputs : EndTransaction(t)
       /\ UNCHANGED others
    \/ /\ \E i \in DOMAIN calls : \E r \in Responses(calls[i]) : Settle(i, r)
       /\ UNCHANGED others
    \/ /\ \E i \in DOMAIN calls : Tap(i)
       /\ UNCHANGED others

SpecAlias == InitAlias /\ [][NextAlias]_vars

\* The executor answers a native invocation that is pending.
SettleSome ==
    /\ \E i \in DOMAIN calls : \E r \in Responses(calls[i]) : Settle(i, r)
    /\ UNCHANGED others

\* The promise library runs a .tap handler of endTransaction that is due.
TapSome ==
    /\ \E i \in DOMAIN calls : Tap(i)
    /\ UNCHANGED others

\* Inputs of the specification SpecLive: adds without options of their own.
LiveCallInputs == {OnTransaction(t, <<>>) : t \in TidInputs}

NextLive ==
    \/ /\ \E o \in TxInputs : BeginTransaction(o)
       /\ UNCHANGED others
    \/ /\ \E n \in 1 .. MaxBatch, o \in LiveCallInputs : BatchPlay(n, o)
       /\ UNCHANGED others
    \/ /\ \E t \in TidInputs : EndTransaction(t)
       /\ UNCHANGED others
    \/ SettleSome
    \/ TapSome

\* The executor settles every invocation it receives: an invocation that is
\* pending is answered in the end; and the promise library runs every
\* handler in its queue.
SpecLive == Init /\ [][NextLive]_vars /\ WF_vars(SettleSome) /\ WF_vars(TapSome)

\* ---------------------------------------------------------------- properties
Range(seq) == {seq[i] : i \in DOMAIN seq}

IsPrefix(p, seq) == Len(p) <= Len(seq) /\ \A i \in DOMAIN p : p[i] = seq[i]

\* the native invocations made by endTransaction(t)
CallsOf(t) == {i \in DOMAIN calls : calls[i].tid = t}

\* endTransaction(t) has been called on a transaction begin returned
EndCalled(t) == CallsOf(t) # {}

Begun(t) == t \in Range(returned)

\* the last operation was a batchPlay carrying options.transaction
LastIsAdd == last.op = "batchPlay" /\ "transaction" \in KeysOf(last.opts)

\* C1: once the executor call made by end(t) has settled, in whatever way,
\* and the promise of end(t) with it, t's record is no longer in the active
\* transaction map.
C1_RemovedOnSettlement ==
    \A i \in DOMAIN calls :
        (calls[i].tid # NoTx /\ calls[i].settled # "pending")
            => calls[i].tid \notin DOMAIN transactions

\* C2: after end(t) has been called, a later add(t, commands) with commands
\* non-empty fails with InvalidTransaction and so does a later end(t).
C2_ClosedIdStaysInvalid ==
    /\ (LastIsAdd /\ last.cmds # <<>> /\ EndCalled(last.tid))
            => last.res = "InvalidTransaction"
    /\ (last.op = "end" /\ Cardinality(CallsOf(last.tid)) > 1)
            => last.res = "InvalidTransaction"

\* C3: the native executor is invoked at most once for a transaction, however
\* often end is called, and with the commands of the adds that succeeded.
C3_ExactlyOneDispatch ==
    \A t \in TidInputs :
        /\ Cardinality(CallsOf(t)) <= 1
        /\ \A i \in CallsOf(t) : IsPrefix(calls[i].commands, added[t])

\* C4: a record for t is in the active map if and only if begin has returned
\* t and end(t) has not yet been called.
C4_RecordIffBegunNotEnded ==
    \A t \in TidInputs :
        (t \in DOMAIN transactions) <=> (Begun(t) /\ ~EndCalled(t))

\* C5: adds that return normally never disagree on an option key that was not
\* declared at begin (the second of two disagreeing adds fails); an add that
\* fails with IncompatibleOptions leaves the transaction open and its command
\* sequence as the successful adds built it; an add that carries no option of
\* its own succeeds on every open transaction; and end dispatches exactly the
\* commands of the adds that succeeded.
C5_ConflictRejectsAtomically ==
    /\ \A t \in DOMAIN transactions : \A p, q \in supplied[t] :
          (p[1] = q[1] /\ p[1] \notin DOMAIN transactions[t].txOptions) => p[2] = q[2]
    /\ (LastIsAdd /\ last.res = "IncompatibleOptions")
          => /\ last.tid \in DOMAIN transactions
             /\ transactions[last.tid].commands = added[last.tid]
             /\ Range(last.cmds) \cap Range(transactions[last.tid].commands) = {}
    /\ (/\ LastIsAdd /\ last.cmds # <<>>
        /\ last.tid \in DOMAIN transactions
        /\ KeysOf(last.opts) = {"transaction"})
          => last.res = "ok"
    /\ (last.op = "end" /\ last.res = "dispatched")
          => calls[Len(calls)].commands = added[last.tid]

\* an add failed with IncompatibleOptions after another add had succeeded
C5_Witness ==
    /\ LastIsAdd /\ last.res = "IncompatibleOptions"
    /\ last.tid \in DOMAIN transactions
    /\ transactions[last.tid].commands # <<>>

\* C6: for every key declared in txOptions at begin, the options handed to
\* the native executor by end(t) carry exactly the begin-time value.
C6_BeginOptionsWin ==
    \A i \in DOMAIN calls :
        calls[i].tid \in DOMAIN transactions =>
            \A k \in DOMAIN transactions[calls[i].tid].txOptions :
                /\ k \in DOMAIN calls[i].options
                /\ calls[i].options[k] = transactions[calls[i].tid].txOptions[k]

\* C7: an add on an open transaction whose options disagree with the
\* accumulated options only on keys declared at begin succeeds and its
\* commands are appended at the end of the record's command sequence.
C7_DeclaredKeysNeverConflict ==
    (/\ LastIsAdd /\ last.cmds # <<>>
     /\ last.tid \in DOMAIN transactions
     /\ \A k \in KeysOf(last.opts) :
            (/\ k \in DOMAIN transactions[last.tid].options
             /\ transactions[last.tid].options[k] # ValueOf(last.opts, k))
                => k \in DOMAIN transactions[last.tid].txOptions)
    => /\ last.res = "ok"
       /\ LET commands == transactions[last.tid].commands
              n == Len(last.cmds)
          IN /\ Len(commands) >= n
             /\ SubSeq(commands, Len(commands) - n + 1, Len(commands)) = last.cmds

\* an add succeeded although it disagrees with the accumulated value of a
\* key declared at begin
C7_Witness ==
    /\ LastIsAdd /\ last.res = "ok"
    /\ last.tid \in DOMAIN transactions
    /\ \E k \in KeysOf(last.opts) \cap DOMAIN transactions[last.tid].txOptions :
          transactions[last.tid].options[k] # ValueOf(last.opts, k)

\* C8: the command list end(t) hands to the native executor holds the
\* commands added to t in the order they were appended, none reordered,
\* duplicated or dropped.
C8_AppendOrderPreserved ==
    /\ \A t \in DOMAIN added : \A i \in CallsOf(t) :
          /\ IsPrefix(calls[i].commands, added[t])
          /\ \A j, k \in DOMAIN calls[i].commands :
                j < k => calls[i].commands[j] < calls[i].commands[k]
    /\ \A t \in DOMAIN transactions : transactions[t].commands = added[t]

\* end dispatched commands of two add calls that another call came between
C8_Witness ==
    \E i \in DOMAIN calls :
        /\ calls[i].tid # NoTx
        /\ Len(calls[i].commands) >= 2
        /\ calls[i].commands[2] > calls[i].commands[1] + 1

\* C9: an add never invokes the native executor: the commands of the add
\* just made are in no native invocation, and commands queued on t are only
\* ever in invocations made by end(t).
C9_AddNeverDispatches ==
    /\ LastIsAdd =>
          \A i \in DOMAIN calls : Range(calls[i].commands) \cap Range(last.cmds) = {}
    /\ \A t \in DOMAIN added : \A i \in DOMAIN calls :
          Range(added[t]) \cap Range(calls[i].commands) # {} => calls[i].tid = t

\* commands were added to an open transaction while a native invocation of
\* another call was in flight
C9_Witness ==
    /\ LastIsAdd /\ last.res = "ok"
    /\ last.tid \in DOMAIN transactions
    /\ ~EndCalled(last.tid)
    /\ \E i \in DOMAIN calls : calls[i].status = "pending"

\* C10: the ids returned by begin are strictly increasing, hence unique and
\* never returned again, and the first one is 0.
C10_IdsUniqueIncreasing ==
    /\ returned # <<>> => returned[1] = 0
    /\ \A i, j \in DOMAIN returned : i < j => returned[i] < returned[j]

\* begin returned a second id after the first transaction was over
C10_Witness ==
    /\ Len(returned) >= 2
    /\ returned[1] \notin DOMAIN transactions

\* the last operation was a batchPlay of no commands
LastIsEmptyBatch == last.op = "batchPlay" /\ last.cmds = <<>>

\* the truthiness of continueOnError in the options a caller passed
AsksContinueOnError(options) ==
    \E i \in DOMAIN options :
        options[i].key = "continueOnError" /\ options[i].val = Atom("true")

\* C11: a batchPlay of an empty command list makes no native invocation and
\* changes no transaction, and its promise is resolved with the pair of two
\* empty arrays when options.continueOnError is true and with one empty array
\* otherwise.
C11_EmptyBatchShortCircuits ==
    [][(last'.op = "batchPlay" /\ last'.cmds = <<>>)
         => /\ calls' = calls
            /\ transactions' = transactions
            /\ promise'.state = "resolved"
            /\ promise'.value.results = <<>>
            /\ promise'.value.kind =
                  IF AsksContinueOnError(last'.opts) THEN "pair" ELSE "array"]_vars

\* an empty batch in continueOnError mode named an open transaction that
\* holds commands, while another native invocation was in flight
C11_Witness ==
    /\ LastIsEmptyBatch
    /\ AsksContinueOnError(last.opts)
    /\ promise.value.kind = "pair"
    /\ last.tid \in DOMAIN transactions
    /\ transactions[last.tid].commands # <<>>
    /\ \E i \in DOMAIN calls : calls[i].status = "pending"

\* the native invocation whose settlement was the last operation
LastSettled == IF last.op = "settle" THEN promise.call ELSE 0

\* the invocation was made without a truthy continueOnError in its options
FailFast(i) == ~ContinueOnError(calls[i].options)

\* C12: when the executor answers an invocation of commands made in fail-fast mode, the
\* promise is rejected with the errors entry of lowest index if there is one,
\* and is resolved with the results array alone if every entry is null.
C12_FailFastFirstError ==
    (/\ LastSettled # 0
     /\ calls[LastSettled].commands # <<>>
     /\ FailFast(LastSettled)
     /\ ~promise.response.rejects)
    => LET errors == promise.response.errors
       IN IF \E i \in DOMAIN errors : errors[i]
          THEN /\ promise.state = "rejected"
               /\ promise.value.kind = "error"
               /\ errors[promise.value.error.index]
               /\ \A j \in DOMAIN errors : errors[j] => promise.value.error.index <= j
          ELSE /\ promise.state = "resolved"
               /\ promise.value = ArrayOf(promise.response.results)

\* C13: when the executor answers an invocation made in continue-on-error
\* mode, the promise is resolved with the pair of the executor's results and
\* errors arrays, unchanged, each as long as the command list and aligned
\* with it, whatever the number of errors.
C13_ContinueOnErrorRawPair ==
    (/\ LastSettled # 0
     /\ calls[LastSettled].commands # <<>>
     /\ ~FailFast(LastSettled)
     /\ ~promise.response.rejects)
    => LET commands == calls[LastSettled].commands
       IN /\ promise.state = "resolved"
          /\ promise.value.kind = "pair"
          /\ promise.value.results = promise.response.results
          /\ promise.value.errors = promise.response.errors
          /\ Len(promise.value.results) = Len(commands)
          /\ Len(promise.value.errors) = Len(commands)
          /\ \A k \in DOMAIN commands : promise.value.results[k].command = commands[k]

\* an invocation of two or more commands made in continue-on-error mode was
\* answered with an error for every command
C13_Witness ==
    /\ LastSettled # 0
    /\ ~FailFast(LastSettled)
    /\ Len(calls[LastSettled].commands) >= 2
    /\ ~promise.response.rejects
    /\ \A k \in DOMAIN promise.response.errors : promise.response.errors[k]
    /\ promise.state = "resolved"

\* C14: an add of commands, or an end, on an id that begin never returned
\* throws InvalidTransaction, and the step changes neither the active map nor
\* any record nor the id counter and makes no native invocation.
C14_UnknownIdRejected ==
    [][(/\ \/ last'.op = "end"
           \/ /\ last'.op = "batchPlay"
              /\ "transaction" \in KeysOf(last'.opts)
              /\ last'.cmds # <<>>
        /\ last'.tid \notin Range(returned))
         => /\ last'.res = "InvalidTransaction"
            /\ promise'.state = "thrown"
            /\ promise'.value = Failure(ErrorOf("InvalidTransaction", 0))
            /\ transactions' = transactions
            /\ transactionIDCounter' = transactionIDCounter
            /\ calls' = calls]_vars

\* an end on an id not yet returned was refused while a transaction was open
\* with commands and a native invocation was in flight
C14_Witness ==
    /\ last.op = "end"
    /\ last.tid \notin Range(returned)
    /\ last.res = "InvalidTransaction"
    /\ \E t \in DOMAIN transactions : transactions[t].commands # <<>>
    /\ \E i \in DOMAIN calls : calls[i].status = "pending"

\* C15 as stated: every add that returns normally, an add of no commands
\* included, resolves at once to an array as long as its command list whose
\* slots are all unset.
C15_PlaceholderArray ==
    (LastIsAdd /\ last.res \in {"ok", "empty"} /\ last.tid \in Range(returned))
    => /\ promise.state = "resolved"
       /\ promise.value.kind = "array"
       /\ Len(promise.value.results) = Len(last.cmds)
       /\ \A i \in DOMAIN promise.value.results : promise.value.results[i] = Unset

\* C15, amended: every add of a non-empty command list that returns normally
\* resolves at once, before any end of its transaction, to an array as long
\* as its command list whose slots are all unset.
C15_PlaceholderArrayNonEmpty ==
    (LastIsAdd /\ last.res = "ok")
    => /\ last.cmds # <<>>
       /\ promise.state = "resolved"
       /\ promise.value.kind = "array"
       /\ Len(promise.value.results) = Len(last.cmds)
       /\ \A i \in DOMAIN promise.value.results : promise.value.results[i] = Unset

\* an add of two commands resolved while its transaction had not been ended
C15_Witness ==
    /\ LastIsAdd /\ last.res = "ok"
    /\ Len(last.cmds) = 2
    /\ ~EndCalled(last.tid)
    /\ promise.state = "resolved"
    /\ Len(promise.value.results) = 2

\* the interactionMode a set of options asks for, SILENT when it has none
ModeOf(options) ==
    IF "interactionMode" \in DOMAIN options THEN options["interactionMode"] ELSE SILENT

\* C16: every native invocation carries an interactionMode.  An immediate
\* batchPlay hands over the caller's value, or SILENT when the caller gave
\* none; end(t) hands over the value declared at begin, else the value the
\* adds accumulated, else SILENT.
C16_InteractionModeDefault ==
    [][Len(calls') > Len(calls)
         => LET call == calls'[Len(calls')]
            IN /\ "interactionMode" \in DOMAIN call.options
               /\ call.options["interactionMode"] =
                     IF call.tid = NoTx
                     THEN ModeOf(ToObject(last'.opts))
                     ELSE IF "interactionMode" \in DOMAIN transactions[call.tid].txOptions
                     THEN transactions[call.tid].txOptions["interactionMode"]
                     ELSE ModeOf(transactions[call.tid].options)]_vars

\* end handed over the mode declared at begin although an add had given
\* another, and an immediate call without a mode was handed over as SILENT
C16_Witness ==
    /\ \E i \in DOMAIN calls :
          /\ calls[i].tid \in DOMAIN supplied
          /\ calls[i].options["interactionMode"] = DISPLAY
          /\ <<"interactionMode", DONT_DISPLAY>> \in supplied[calls[i].tid]
    /\ \E i \in DOMAIN calls :
          /\ calls[i].tid = NoTx
          /\ calls[i].options["interactionMode"] = SILENT

\* C17: what _wrap returns is a fixed point of _wrap: applying _wrap to the
\* wrapped form of any reference, wrapped with or without a list of multi-get
\* properties, gives that wrapped form back.
C17_WrapIdempotent ==
    wrapped.stage = 2 => wrapped.twice = wrapped.once

\* an array of two different references was wrapped with a property list,
\* which changed it, and the result was wrapped again
C17_Witness ==
    /\ wrapped.stage = 2
    /\ wrapped.reference.class = "array"
    /\ Len(wrapped.reference.items) = 2
    /\ wrapped.reference.items[1] # wrapped.reference.items[2]
    /\ wrapped.properties # <<>>
    /\ wrapped.once # wrapped.reference

\* the properties a query asked for, in order
Asked == [i \in DOMAIN query.refObjs |-> query.refObjs[i].property]

\* the executor has answered the native invocation the query waited for and
\* the handlers of the query have run
QueryAnswered ==
    /\ query.call # 0
    /\ query.inner.call = query.call
    /\ query.state # "pending"

\* C18: batchGetOptionalProperties invokes the executor in continue-on-error
\* mode, and whatever errors the executor reports it resolves to an object
\* that has key p exactly when some requested position of p has a result
\* that is an object with own key p, the value being the one of such a
\* result; it fails only when the native call itself fails.
C18_OptionalPropertiesTolerant ==
    query.op = "batchGetOptionalProperties"
    => /\ query.state \in {"pending", "resolved", "rejected"}
       /\ query.call # 0
            => /\ calls[query.call].tid = NoTx
               /\ "continueOnError" \in DOMAIN calls[query.call].options
               /\ calls[query.call].options["continueOnError"] = Atom("true")
               /\ Len(calls[query.call].commands) = Len(Asked)
       /\ query.call = 0
            => /\ Asked = <<>>
               /\ query.state = "resolved" => query.value = QObject(<<>>)
               /\ query.state # "rejected"
       /\ QueryAnswered
            => LET results == query.inner.response.results
                   holds(i) == results[i].kind = "object" /\ Asked[i] \in results[i].keys
               IN IF query.inner.response.rejects
                  THEN query.state = "rejected"
                  ELSE /\ query.state = "resolved"
                       /\ query.value.kind = "object"
                       /\ DOMAIN query.value.object =
                             {Asked[i] : i \in {j \in DOMAIN Asked : holds(j)}}
                       /\ \A p \in DOMAIN query.value.object :
                             \E i \in DOMAIN Asked :
                                /\ Asked[i] = p
                                /\ holds(i)
                                /\ query.value.object[p] = PropertyValue(results[i], p)

\* two different properties were asked for, the fetch of the second failed
\* and the query resolved to an object holding the first alone
C18_Witness ==
    /\ query.op = "batchGetOptionalProperties"
    /\ QueryAnswered
    /\ Len(Asked) = 2
    /\ Asked[1] # Asked[2]
    /\ query.inner.response.errors = <<FALSE, TRUE>>
    /\ query.state = "resolved"
    /\ DOMAIN query.value.object = {Asked[1]}

\* C19: multiGetProperties hands the native get the multi-get form of the
\* reference; when the get answers with an object, it resolves with that
\* object if the object has every requested property as an own key, and
\* otherwise fails with "No such property" naming the first requested
\* property, in the order asked, that the object lacks.
C19_MultiGetValidates ==
    query.op = "multiGetProperties"
    => LET keys == query.fetched.keys
       IN IF Asked = <<>>
          THEN /\ query.get = JUndefined
               /\ query.state \in {"pending", "resolved"}
               /\ query.state = "resolved" => query.value = QFetched({})
          ELSE /\ query.get.class = "object"
               /\ "_multiGetRef" \in DOMAIN query.get.fields
               /\ query.state \in {"pending", "resolved", "rejected"}
               /\ (query.state # "pending" /\ ~query.fetched.rejects)
                    => IF \A i \in DOMAIN Asked : Asked[i] \in keys
                       THEN query.state = "resolved" /\ query.value = QFetched(keys)
                       ELSE /\ query.state = "rejected"
                            /\ query.value.kind = "missing"
                            /\ \E i \in DOMAIN Asked :
                                  /\ Asked[i] = query.value.missing
                                  /\ Asked[i] \notin keys
                                  /\ \A j \in DOMAIN Asked : j < i => Asked[j] \in keys

\* the fetched object lacked both of two different requested properties
C19_Witness ==
    /\ query.op = "multiGetProperties"
    /\ query.state = "rejected"
    /\ query.value.kind = "missing"
    /\ Len(Asked) = 2
    /\ Asked[1] # Asked[2]
    /\ ~query.fetched.rejects
    /\ Asked[1] \notin query.fetched.keys
    /\ Asked[2] \notin query.fetched.keys

\* the reference and property a command of the query asks the executor for
Requested(command) ==
    LET ref == command.fields["descriptor"].fields["null"].fields["_ref"].items
    IN [property |-> ref[1].fields["_property"].str, depth |-> Len(ref)]

\* C20: batchGetProperties, unless the call itself throws, makes one native
\* invocation of one get command per pair, in the order of the pairs, whatever
\* its options.  When the executor answers it: in continue-on-error mode the
\* query resolves with the raw pair; otherwise, when no command failed, it
\* resolves with the list of the property values, aligned with the pairs, if
\* every result has its property as an own key, and fails else with "No such
\* property" naming the property of the result of lowest index that lacks
\* it.  Outside continue-on-error mode it never resolves with anything but a
\* list holding the value of its property for every pair.
C20_BatchGetValidates ==
    query.op = "batchGetProperties"
    => /\ (query.refObjs # <<>> /\ query.state # "thrown")
            => /\ query.call # 0
               /\ calls[query.call].tid = NoTx
               /\ Len(calls[query.call].commands) = Len(query.refObjs)
       /\ Len(query.commands) = Len(query.refObjs)
       /\ \A i \in DOMAIN query.commands :
             /\ query.commands[i].fields["name"] = JStr("get")
             /\ Requested(query.commands[i]).property = Asked[i]
       /\ (query.state = "resolved" /\ ~Continues(query.options))
            => /\ query.value.kind = "list"
               /\ Len(query.value.list) = Len(Asked)
               /\ \A i \in DOMAIN Asked : query.value.list[i] # NoPropertyValue
       /\ QueryAnswered
            => LET results == query.inner.response.results
                   errors == query.inner.response.errors
                   holds(i) == results[i].kind = "object" /\ Asked[i] \in results[i].keys
               IN IF query.inner.response.rejects
                  THEN query.state = "rejected" /\ query.value.kind = "raw"
                  ELSE IF Continues(query.options)
                  THEN /\ query.state = "resolved"
                       /\ query.value = QRaw(PairOf(results, errors))
                  ELSE IF \E i \in DOMAIN errors : errors[i]
                  THEN query.state = "rejected" /\ query.value.kind = "raw"
                  ELSE IF \A i \in DOMAIN Asked : holds(i)
                  THEN /\ query.state = "resolved"
                       /\ query.value.kind = "list"
                       /\ Len(query.value.list) = Len(Asked)
                       /\ \A i \in DOMAIN Asked :
                             query.value.list[i] = PropertyValue(results[i], Asked[i])
                  ELSE /\ query.state = "rejected"
                       /\ query.value.kind = "missing"
                       /\ \E i \in DOMAIN Asked :
                             /\ Asked[i] = query.value.missing
                             /\ ~holds(i)
                             /\ \A j \in DOMAIN Asked : j < i => holds(j)

\* _wrap has been applied to an array, without a list of multi-get properties
WrappedArray ==
    /\ wrapped.stage >= 1
    /\ wrapped.reference.class = "array"
    /\ wrapped.properties = <<>>

\* the canonical form of an array under the given key: the elements each
\* wrapped, in reversed order, and the caller's array as it was
ArrayWrappedUnder(key) ==
    LET items == wrapped.reference.items
        n == Len(items)
    IN /\ wrapped.once.class = "object"
       /\ DOMAIN wrapped.once.fields = {key}
       /\ wrapped.once.fields[key].class = "array"
       /\ Len(wrapped.once.fields[key].items) = n
       /\ \A i \in 1 .. n :
             wrapped.once.fields[key].items[i] = _wrap(items[n + 1 - i], <<>>)
       /\ wrapped.after = wrapped.reference

\* C21 as stated: _wrap of an array gives an object whose single key is
\* "_ref_list", holding the wrapped elements in reversed order, and the
\* caller's array is not modified.
C21_ArrayUnderRefList == WrappedArray => ArrayWrappedUnder("_ref_list")

\* C21 as amended: _wrap of an array gives an object whose single key is
\* "_ref", holding the wrapped elements in reversed order, and the caller's
\* array is not modified.
C21_ArrayUnderRef == WrappedArray => ArrayWrappedUnder("_ref")

\* an array of a play object and a string was wrapped: the play object's
\* reference is wrapped in the result and untouched in the caller's array
C21_Witness ==
    /\ WrappedArray
    /\ Len(wrapped.reference.items) = 2
    /\ wrapped.reference.items[1].class = "object"
    /\ "null" \in DOMAIN wrapped.reference.items[1].fields
    /\ wrapped.reference.items[2].class = "string"
    /\ wrapped.once.fields["_ref"].items[2].fields["null"].class = "object"
    /\ wrapped.after.items[1].fields["null"].class = "string"

\* C22: on an open transaction the accumulated options hold exactly the keys
\* the adds that returned normally have supplied, each with the value of the
\* first of those adds that supplied it.
C22_FirstWriterWins ==
    \A t \in DOMAIN transactions :
        ~EndCalled(t) => Read(transactions[t].options) = writers[t]

\* C27: an add that throws IncompatibleOptions changes nothing of the
\* transaction map: the record of its transaction, accumulated options
\* included, is as it was before the call.
C27_RejectedAddLeavesRecord ==
    [][(last'.op = "batchPlay" /\ last'.res = "IncompatibleOptions")
         => transactions' = transactions]_vars

\* C23: an end on an open transaction that holds no commands makes no native
\* invocation, returns a promise resolved with the empty outcome (the pair of
\* two empty arrays in continue-on-error mode, one empty array otherwise),
\* and removes the record.
C23_EmptyEndShortCircuits ==
    [][(/\ last'.op = "end"
        /\ last'.tid \in DOMAIN transactions
        /\ transactions[last'.tid].commands = <<>>)
         => /\ calls' = calls
            /\ promise'.state = "resolved"
            /\ promise'.value =
                  IF ContinueOnError(Merge(transactions[last'.tid].options,
                                           transactions[last'.tid].txOptions))
                  THEN PairOf(<<>>, <<>>) ELSE ArrayOf(<<>>)
            /\ last'.tid \notin DOMAIN transactions']_vars

\* C24: a batchPlay whose options name a transaction that is not in the
\* active map throws InvalidTransaction, whatever the command list, the
\* empty list included.
C24_InvalidIdAlwaysRejected ==
    [][(/\ last'.op = "batchPlay"
        /\ "transaction" \in KeysOf(last'.opts)
        /\ last'.tid \notin DOMAIN transactions)
         => /\ last'.res = "InvalidTransaction"
            /\ promise'.state = "thrown"]_vars

\* C25: the promise of a native invocation made in continue-on-error mode is
\* resolved whatever the executor does with the invocation, a failure of the
\* invocation as a whole included.
C25_ContinueOnErrorNeverRejects ==
    (LastSettled # 0 /\ ~FailFast(LastSettled)) => promise.state = "resolved"

\* C28: the commands of an add that returned normally are not lost: once the
\* record of a transaction is gone, every command that an add on it was
\* accepted with is in a native invocation made for that transaction.
C28_AcceptedAddIsDispatched ==
    \A t \in DOMAIN added :
        t \notin DOMAIN transactions
            => Range(added[t]) \subseteq UNION {Range(calls[i].commands) : i \in CallsOf(t)}

\* a step of a property query
QueryStep == query'.nth = query.nth + 1

\* C30: a batchPlay without options.transaction and a property query change
\* neither the active map nor any record nor the id counter, and a batchPlay
\* of commands without options.transaction makes exactly one native
\* invocation, of exactly those commands.
C30_ImmediateLeavesTransactions ==
    [][(/\ last'.op = "batchPlay"
        /\ ~HasTransaction(last'.opts) \/ QueryStep)
         => /\ transactions' = transactions
            /\ transactionIDCounter' = transactionIDCounter
            /\ (~HasTransaction(last'.opts) /\ last'.cmds # <<>>)
                  => /\ Len(calls') = Len(calls) + 1
                     /\ SubSeq(calls', 1, Len(calls)) = calls
                     /\ calls'[Len(calls')].tid = NoTx
                     /\ calls'[Len(calls')].commands = last'.cmds]_vars

\* C26: when the executor settles every invocation it receives, every end
\* on an open transaction settles in the end, and the transaction's record
\* is absent from the active map in the end.
C26_EndSettlesAndRemoves ==
    \A t \in TidInputs :
        [](EndCalled(t)
             => <>(/\ \A i \in CallsOf(t) : calls[i].settled # "pending"
                   /\ t \notin DOMAIN transactions))

\* the record of t as a caller or the executor would read it, in a given
\* map and heap
RecordIn(map, h, t) ==
    [commands |-> map[t].commands,
     options |-> [k \in DOMAIN map[t].options |-> ReadIn(h, map[t].options[k])],
     txOptions |-> [k \in DOMAIN map[t].txOptions |-> ReadIn(h, map[t].txOptions[k])]]

\* the values transaction t has of its own for option key k: what its adds
\* supplied, what its begin declared, and the default interaction mode
OwnValues(t, k) ==
    {p[2] : p \in {q \in supplied[t] : q[1] = k}}
    \cup (IF k \in DOMAIN transactions[t].txOptions
          THEN {ReadIn(heap, transactions[t].txOptions[k])} ELSE {})
    \cup (IF k = "interactionMode" THEN {SILENT} ELSE {})

\* value v of key k is made of t's own values: it is one of them, or an
\* object each of whose properties one of them has
DerivedFromOwn(t, k, v) ==
    \/ v \in OwnValues(t, k)
    \/ /\ v.kind = "obj"
       /\ \A f \in DOMAIN v.fields :
             \E w \in OwnValues(t, k) :
                w.kind = "obj" /\ f \in DOMAIN w.fields /\ w.fields[f] = v.fields[f]

\* C29: a begin, an add or an end on one transaction leaves the commands,
\* accumulated options and txOptions of every other open transaction as they
\* were, and the native invocation made by the end of a transaction holds
\* commands added to that transaction only, with options made of what its
\* own adds supplied and its own begin declared.
C29_TransactionsIsolated ==
    /\ [](\A i \in DOMAIN calls :
            calls[i].tid \in DOMAIN transactions
              => /\ Range(calls[i].commands) \subseteq Range(added[calls[i].tid])
                 /\ \A k \in DOMAIN calls[i].options :
                       DerivedFromOwn(calls[i].tid, k, calls[i].options[k]))
    /\ [][(\/ last'.op \in {"begin", "end"}
           \/ last'.op = "batchPlay" /\ HasTransaction(last'.opts))
            => \A t \in DOMAIN transactions \ {last'.tid} :
                  /\ t \in DOMAIN transactions'
                  /\ RecordIn(transactions', heap', t) = RecordIn(transactions, heap, t)]_vars
====
